---- MODULE Spec2Model ----
(***************************************************************************)
(* Model of UParallelBehaviorManagerComponent                              *)
(* (Source/ParallelBehavior/Private/Components/                            *)
(*  ParallelBehaviorManagerComponent.cpp and its header).                  *)
(*                                                                         *)
(* The component keeps an array RunningTrees of FParallelBehaviorRuntime   *)
(* records; each record carries an FName Id and two TWeakObjectPtr's, one  *)
(* to a UBehaviorTreeComponent and one to a UBlackboardComponent.  The     *)
(* engine's object store is modelled by the sequence objs: an object is    *)
(* its index in objs, NULL (0) is nullptr, and a weak pointer is valid     *)
(* while the object has not been destroyed.                                *)
(*                                                                         *)
(* Every handler is one action.  lastOp is a history variable: it records  *)
(* the last call, its arguments, its result and the calls it made on       *)
(* managed objects.  What an executor does when it is stopped or restarted *)
(* is the engine's business: the model keeps the calls (in lastOp), not    *)
(* the executor's progress through its tree.  NewObject is taken to return *)
(* a new object on every call.  The public operations are called between   *)
(* BeginPlay and EndPlay.                                                  *)
(***************************************************************************)
EXTENDS Integers, Sequences, FiniteSets, TLC

\* ---------------------------------------------------------------- bounds
\* longest configured default list
MaxDefaults == 2
\* callers stop adding once this many executors have been created
MaxTrees == 2
\* most objects destroyed behind the registry's back
MaxExternal == 1

\* ------------------------------------------------------------ input sets
\* FName values used as tree ids
Names == {"combat", "locomotion"}

\* nullptr, for object pointers
NULL == 0

\* an unset TSoftObjectPtr<UBehaviorTree>
NoAsset == "None"

\* behaviour tree assets: without a blackboard asset, with a blackboard
\* asset whose InitializeBlackboard fails, with one that has no "SelfActor"
\* key, with one that has it
BTAssets == {"BT_NoBlackboard", "BT_InitFails", "BT_NoSelfKey", "BT_SelfKey"}

\* UBehaviorTree::BlackboardAsset != nullptr
HasBlackboardAsset(asset) == asset \in {"BT_InitFails", "BT_NoSelfKey", "BT_SelfKey"}

\* result of UBlackboardComponent::InitializeBlackboard(*BlackboardAsset)
InitializeBlackboard(asset) == asset \in {"BT_NoSelfKey", "BT_SelfKey"}

\* BlackboardAsset->GetKeyID(FBlackboard::KeySelf) != FBlackboard::InvalidKey
HasSelfKey(asset) == asset = "BT_SelfKey"

\* FParallelBehaviorSetup
FParallelBehaviorSetup == [Id : Names, BTAsset : BTAssets \cup {NoAsset}]

\* the setups callers pass to AddTree
CallerSetups ==
    {[Id |-> "combat", BTAsset |-> NoAsset],
     [Id |-> "combat", BTAsset |-> "BT_InitFails"],
     [Id |-> "locomotion", BTAsset |-> "BT_NoBlackboard"]}

\* the setups the default list is configured from
DefaultSetups ==
    {[Id |-> "combat", BTAsset |-> "BT_SelfKey"],
     [Id |-> "locomotion", BTAsset |-> "BT_NoBlackboard"],
     [Id |-> "locomotion", BTAsset |-> NoAsset]}

\* sequences over S of length at most n
RECURSIVE SeqsUpTo(_, _)
SeqsUpTo(S, n) ==
    IF n = 0 THEN {<<>>}
    ELSE LET shorter == SeqsUpTo(S, n - 1)
         IN  shorter \cup {Append(s, x) : s \in {t \in shorter : Len(t) = n - 1}, x \in S}

VARIABLES
    phase,                    \* "inactive", "active", "ended", "aborted"
    HasAuthority,             \* GetOwner()->HasAuthority()
    ParallelBehaviorDefaults, \* configured default setups
    RunningTrees,             \* the registry
    objs,                     \* the managed objects created so far
    lastOp                    \* history: the last call

vars == <<phase, HasAuthority, ParallelBehaviorDefaults, RunningTrees, objs, lastOp>>

\* -------------------------------------------------------- managed objects
\* NewObject<UBehaviorTreeComponent> + RegisterComponent + StartTree(Looped)
NewBehaviorTreeComponent ==
    [Class |-> "UBehaviorTreeComponent", Killed |-> "no", State |-> "StartedLooped"]

\* NewObject<UBlackboardComponent> + InitializeBlackboard + SetValue(self)
\* + RegisterComponent
NewBlackboardComponent(asset) ==
    [Class |-> "UBlackboardComponent", Killed |-> "no",
     State |-> IF ~InitializeBlackboard(asset) THEN "Uninitialized"
               ELSE IF HasSelfKey(asset) THEN "SelfIsPawn"
               ELSE "Initialized"]

\* TWeakObjectPtr::IsValid
IsValid(os, o) == o # NULL /\ os[o].Killed = "no"

\* TWeakObjectPtr::Get
Get(os, o) == IF IsValid(os, o) THEN o ELSE NULL

\* UActorComponent::DestroyComponent
DestroyComponent(os, o) == [os EXCEPT ![o].Killed = "DestroyComponent"]

\* FParallelBehaviorRuntime(InId, InBTComponent, InBlackboardComponent)
FParallelBehaviorRuntime(InId, InBTComponent, InBlackboardComponent) ==
    [Id |-> InId, TreeComponent |-> InBTComponent,
     BlackboardComponent |-> InBlackboardComponent]

\* the live executors
LiveTrees(os) ==
    {o \in DOMAIN os : os[o].Class = "UBehaviorTreeComponent" /\ IsValid(os, o)}

\* ------------------------------------------------------------- operations
\* TArray index of "not found"
INDEX_NONE == -1

\* TArray::RemoveAt(Index), Index counted from 0
RemoveAt(arr, Index) ==
    [k \in 1..(Len(arr) - 1) |-> IF k <= Index THEN arr[k] ELSE arr[k + 1]]

\* AddTree with the asset tested only after the executor was constructed
AddTreeChecksAssetLate(trees, os, InSetup) ==
    LET withBB == HasBlackboardAsset(InSetup.BTAsset)
        os1 == IF withBB
               THEN Append(os, NewBlackboardComponent(InSetup.BTAsset))
               ELSE os
        blackboardComp == IF withBB THEN Len(os1) ELSE NULL
        os2 == Append(os1, NewBehaviorTreeComponent)
        btComp == Len(os2)
    IN  IF InSetup.BTAsset = NoAsset
        THEN [ok |-> FALSE, trees |-> trees, objs |-> os2]
        ELSE [ok |-> TRUE,
              trees |-> Append(trees,
                          FParallelBehaviorRuntime(InSetup.Id, btComp, blackboardComp)),
              objs |-> os2]

\* AddTree putting the new record at the front of the registry
AddTreeInsertsFirst(trees, os, InSetup) ==
    IF InSetup.BTAsset = NoAsset
    THEN [ok |-> FALSE, trees |-> trees, objs |-> os]
    ELSE LET withBB == HasBlackboardAsset(InSetup.BTAsset)
             os1 == IF withBB
                    THEN Append(os, NewBlackboardComponent(InSetup.BTAsset))
                    ELSE os
             blackboardComp == IF withBB THEN Len(os1) ELSE NULL
             os2 == Append(os1, NewBehaviorTreeComponent)
             btComp == Len(os2)
         IN  [ok |-> TRUE,
              trees |-> <<FParallelBehaviorRuntime(InSetup.Id, btComp, blackboardComp)>>
                        \o trees,
              objs |-> os2]

\* AddTree: the result, the registry and the object store after the call
AddTree(trees, os, InSetup) ==
    IF InSetup.BTAsset = NoAsset
    THEN [ok |-> FALSE, trees |-> trees, objs |-> os]
    ELSE LET withBB == HasBlackboardAsset(InSetup.BTAsset)
             os1 == IF withBB
                    THEN Append(os, NewBlackboardComponent(InSetup.BTAsset))
                    ELSE os
             blackboardComp == IF withBB THEN Len(os1) ELSE NULL
             os2 == Append(os1, NewBehaviorTreeComponent)
             btComp == Len(os2)
         IN  [ok |-> TRUE,
              trees |-> Append(trees,
                          FParallelBehaviorRuntime(InSetup.Id, btComp, blackboardComp)),
              objs |-> os2]

\* RunDefaultTrees leaving the loop at the first AddTree that fails
RECURSIVE RunDefaultTreesStopsAtFailure(_, _, _, _)
RunDefaultTreesStopsAtFailure(defaults, trees, os, i) ==
    IF i >= Len(defaults)
    THEN [trees |-> trees, objs |-> os, ran |-> TRUE, addCalls |-> 0]
    ELSE LET r == AddTree(trees, os, defaults[i + 1])
             rest == IF r.ok
                     THEN RunDefaultTreesStopsAtFailure(defaults, r.trees, r.objs, i + 1)
                     ELSE [trees |-> r.trees, objs |-> r.objs, ran |-> TRUE,
                           addCalls |-> 0]
         IN  [rest EXCEPT !.addCalls = rest.addCalls + 1]

\* RunDefaultTrees from default i (counted from 0) on: AddTree for each
\* default in declaration order, results ignored
RECURSIVE RunDefaultTreesFrom(_, _, _, _)
RunDefaultTreesFrom(defaults, trees, os, i) ==
    IF i >= Len(defaults)
    THEN [trees |-> trees, objs |-> os, ran |-> TRUE, addCalls |-> 0]
    ELSE LET r == AddTree(trees, os, defaults[i + 1])
             rest == RunDefaultTreesFrom(defaults, r.trees, r.objs, i + 1)
         IN  [rest EXCEPT !.addCalls = rest.addCalls + 1]

RunDefaultTrees(defaults, trees, os) == RunDefaultTreesFrom(defaults, trees, os, 0)

\* the stop and destroy calls of one record without the blackboard's
TearDownLeavesBlackboard(st, rt) ==
    LET tc == rt.TreeComponent
    IN  IF IsValid(st.objs, tc)
        THEN [st EXCEPT !.objs = DestroyComponent(st.objs, tc),
                        !.stopped = st.stopped \cup {tc},
                        !.destroyed = st.destroyed \cup {tc}]
        ELSE st

\* the stop and destroy calls one record receives in RemoveTree and
\* RemoveAllTrees; st carries the object store and the calls made so far
TearDown(st, rt) ==
    LET tc == rt.TreeComponent
        bc == rt.BlackboardComponent
        s1 == IF IsValid(st.objs, tc)
              THEN [st EXCEPT !.objs = DestroyComponent(st.objs, tc),
                              !.stopped = st.stopped \cup {tc},
                              !.destroyed = st.destroyed \cup {tc}]
              ELSE st
    IN  IF IsValid(s1.objs, bc)
        THEN [s1 EXCEPT !.objs = DestroyComponent(s1.objs, bc),
                        !.destroyed = s1.destroyed \cup {bc}]
        ELSE s1

\* the loop of RemoveTree, from index i (counted from 0) down to 0
RECURSIVE RemoveTreeLoop(_, _, _, _)
RemoveTreeLoop(trees, Id, i, st) ==
    IF i < 0 THEN st
    ELSE IF trees[i + 1].Id = Id
         THEN RemoveTreeLoop(trees, Id, i - 1,
                             [TearDown(st, trees[i + 1]) EXCEPT !.foundIndex = i])
         ELSE RemoveTreeLoop(trees, Id, i - 1, st)

\* RemoveTree taking index 0 for "not found" (foundIndex > 0)
RemoveTreeIndexZeroNotFound(trees, os, Id) ==
    LET st == RemoveTreeLoop(trees, Id, Len(trees) - 1,
                  [objs |-> os, foundIndex |-> INDEX_NONE,
                   stopped |-> {}, destroyed |-> {}])
    IN  [ok |-> st.foundIndex > 0,
         trees |-> IF st.foundIndex > 0
                   THEN RemoveAt(trees, st.foundIndex) ELSE trees,
         objs |-> st.objs, stopped |-> st.stopped, destroyed |-> st.destroyed]

\* RemoveTree removing the last record instead of the one at foundIndex
RemoveTreeRemovesLast(trees, os, Id) ==
    LET st == RemoveTreeLoop(trees, Id, Len(trees) - 1,
                  [objs |-> os, foundIndex |-> INDEX_NONE,
                   stopped |-> {}, destroyed |-> {}])
    IN  [ok |-> st.foundIndex # INDEX_NONE,
         trees |-> IF st.foundIndex # INDEX_NONE
                   THEN RemoveAt(trees, Len(trees) - 1) ELSE trees,
         objs |-> st.objs, stopped |-> st.stopped, destroyed |-> st.destroyed]

\* RemoveTree: the result, the registry, the object store, the calls made
RemoveTree(trees, os, Id) ==
    LET st == RemoveTreeLoop(trees, Id, Len(trees) - 1,
                  [objs |-> os, foundIndex |-> INDEX_NONE,
                   stopped |-> {}, destroyed |-> {}])
    IN  [ok |-> st.foundIndex # INDEX_NONE,
         trees |-> IF st.foundIndex # INDEX_NONE
                   THEN RemoveAt(trees, st.foundIndex) ELSE trees,
         objs |-> st.objs, stopped |-> st.stopped, destroyed |-> st.destroyed]

\* the loop of RemoveAllTrees, from index i (counted from 0) down to 0
RECURSIVE RemoveAllTreesLoop(_, _, _)
RemoveAllTreesLoop(trees, i, st) ==
    IF i < 0 THEN st
    ELSE RemoveAllTreesLoop(trees, i - 1, TearDown(st, trees[i + 1]))

\* RemoveAllTrees with the loop stopping before index 0 (i > 0 for i >= 0)
RemoveAllTreesSkipsFirst(trees, os) ==
    LET st == RemoveAllTreesLoop(IF trees = <<>> THEN trees ELSE Tail(trees),
                  Len(trees) - 2,
                  [objs |-> os, foundIndex |-> INDEX_NONE,
                   stopped |-> {}, destroyed |-> {}])
    IN  [trees |-> <<>>, objs |-> st.objs,
         stopped |-> st.stopped, destroyed |-> st.destroyed]

\* RemoveAllTrees without the final RunningTrees.Empty()
RemoveAllTreesKeepsRecords(trees, os) ==
    LET st == RemoveAllTreesLoop(trees, Len(trees) - 1,
                  [objs |-> os, foundIndex |-> INDEX_NONE,
                   stopped |-> {}, destroyed |-> {}])
    IN  [trees |-> trees, objs |-> st.objs,
         stopped |-> st.stopped, destroyed |-> st.destroyed]

\* RemoveAllTrees: the registry, the object store, the calls made
RemoveAllTrees(trees, os) ==
    LET st == RemoveAllTreesLoop(trees, Len(trees) - 1,
                  [objs |-> os, foundIndex |-> INDEX_NONE,
                   stopped |-> {}, destroyed |-> {}])
    IN  [trees |-> <<>>, objs |-> st.objs,
         stopped |-> st.stopped, destroyed |-> st.destroyed]

\* the loop of GetTree from index i (counted from 0), n being
\* ParallelBehaviorDefaults.Num(): the pointer returned, or "oob" when
\* RunningTrees[i] is read with i >= RunningTrees.Num()
RECURSIVE GetTreeLoop(_, _, _, _, _)
GetTreeLoop(trees, os, n, InId, i) ==
    IF i >= n THEN [oob |-> FALSE, tree |-> NULL]
    ELSE IF i >= Len(trees) THEN [oob |-> TRUE, tree |-> NULL]
    ELSE IF trees[i + 1].Id = InId
         THEN [oob |-> FALSE, tree |-> Get(os, trees[i + 1].TreeComponent)]
         ELSE GetTreeLoop(trees, os, n, InId, i + 1)

\* GetTree: the possible outcomes.  An out-of-range TArray::operator[]
\* aborts in a build with range checks; without them it reads memory past
\* the array, and the call returns nullptr or some live executor.
GetTree(trees, os, defaults, InId) ==
    LET r == GetTreeLoop(trees, os, Len(defaults), InId, 0)
    IN  IF ~r.oob
        THEN {[oob |-> FALSE, abort |-> FALSE, tree |-> r.tree]}
        ELSE {[oob |-> TRUE, abort |-> TRUE, tree |-> NULL]}
             \cup {[oob |-> TRUE, abort |-> FALSE, tree |-> t] :
                      t \in {NULL} \cup LiveTrees(os)}

\* ---------------------------------------------------------------- history
\* the record of a call: what was called with which arguments, what it
\* returned (ok: a bool result, tree: a pointer result), whether it read
\* past the registry (oob) and aborted, whether it ran the defaults and
\* the AddTree calls it made for them, and the objects it invoked stop,
\* restart and destroy on
Call(op) ==
    [op |-> op, Id |-> "", BTAsset |-> NoAsset, ok |-> FALSE, tree |-> NULL,
     oob |-> FALSE, abort |-> FALSE, ranDefaults |-> FALSE, addCalls |-> 0,
     stopped |-> {}, restarted |-> {}, destroyed |-> {}]

\* ------------------------------------------------------------------ state
Init ==
    /\ phase = "inactive"
    /\ HasAuthority \in BOOLEAN
    /\ ParallelBehaviorDefaults \in SeqsUpTo(DefaultSetups, MaxDefaults)
    /\ RunningTrees = <<>>
    /\ objs = <<>>
    /\ lastOp = Call("construct")

\* ---------------------------------------------------------------- actions
\* BeginPlay running the defaults without asking for authority
BeginPlayIgnoresAuthority ==
    /\ phase = "inactive"
    /\ phase' = "active"
    /\ LET r == RunDefaultTrees(ParallelBehaviorDefaults, RunningTrees, objs)
       IN  /\ RunningTrees' = r.trees
           /\ objs' = r.objs
           /\ lastOp' = [Call("BeginPlay") EXCEPT !.ranDefaults = r.ran,
                                                  !.addCalls = r.addCalls]
    /\ UNCHANGED <<HasAuthority, ParallelBehaviorDefaults>>

\* BeginPlay: the game starts
BeginPlay ==
    /\ phase = "inactive"
    /\ phase' = "active"
    /\ LET r == IF HasAuthority
                THEN RunDefaultTrees(ParallelBehaviorDefaults, RunningTrees, objs)
                ELSE [trees |-> RunningTrees, objs |-> objs, ran |-> FALSE,
                      addCalls |-> 0]
       IN  /\ RunningTrees' = r.trees
           /\ objs' = r.objs
           /\ lastOp' = [Call("BeginPlay") EXCEPT !.ranDefaults = r.ran,
                                                  !.addCalls = r.addCalls]
    /\ UNCHANGED <<HasAuthority, ParallelBehaviorDefaults>>

\* EndPlay cleaning up only with authority
EndPlayAuthorityOnly ==
    /\ phase = "active"
    /\ phase' = "ended"
    /\ LET r == IF HasAuthority
                THEN RemoveAllTrees(RunningTrees, objs)
                ELSE [trees |-> RunningTrees, objs |-> objs,
                      stopped |-> {}, destroyed |-> {}]
       IN  /\ RunningTrees' = r.trees
           /\ objs' = r.objs
           /\ lastOp' = [Call("EndPlay") EXCEPT !.stopped = r.stopped,
                                                !.destroyed = r.destroyed]
    /\ UNCHANGED <<HasAuthority, ParallelBehaviorDefaults>>

\* EndPlay: the component is deactivated
EndPlay ==
    /\ phase = "active"
    /\ phase' = "ended"
    /\ LET r == RemoveAllTrees(RunningTrees, objs)
       IN  /\ RunningTrees' = r.trees
           /\ objs' = r.objs
           /\ lastOp' = [Call("EndPlay") EXCEPT !.stopped = r.stopped,
                                                !.destroyed = r.destroyed]
    /\ UNCHANGED <<HasAuthority, ParallelBehaviorDefaults>>

\* a caller invokes AddTree(InSetup)
CallAddTree(InSetup) ==
    /\ phase = "active"
    /\ Cardinality({o \in DOMAIN objs : objs[o].Class = "UBehaviorTreeComponent"}) < MaxTrees
    /\ LET r == AddTree(RunningTrees, objs, InSetup)
       IN  /\ RunningTrees' = r.trees
           /\ objs' = r.objs
           /\ lastOp' = [Call("AddTree") EXCEPT !.Id = InSetup.Id,
                                                !.BTAsset = InSetup.BTAsset,
                                                !.ok = r.ok]
    /\ UNCHANGED <<phase, HasAuthority, ParallelBehaviorDefaults>>

\* a caller invokes GetTree(InId)
CallGetTree(InId) ==
    /\ phase = "active"
    /\ \E out \in GetTree(RunningTrees, objs, ParallelBehaviorDefaults, InId) :
          /\ phase' = IF out.abort THEN "aborted" ELSE phase
          /\ lastOp' = [Call("GetTree") EXCEPT !.Id = InId, !.tree = out.tree,
                                               !.oob = out.oob, !.abort = out.abort]
    /\ UNCHANGED <<HasAuthority, ParallelBehaviorDefaults, RunningTrees, objs>>

\* a caller invokes StopTree(InId)
StopTree(InId) ==
    /\ phase = "active"
    /\ \E out \in GetTree(RunningTrees, objs, ParallelBehaviorDefaults, InId) :
          /\ phase' = IF out.abort THEN "aborted" ELSE phase
          /\ lastOp' = [Call("StopTree") EXCEPT
                           !.Id = InId, !.tree = out.tree,
                           !.oob = out.oob, !.abort = out.abort,
                           !.stopped = IF out.tree # NULL THEN {out.tree} ELSE {}]
    /\ UNCHANGED <<HasAuthority, ParallelBehaviorDefaults, RunningTrees, objs>>

\* a caller invokes RestartTree(InId)
RestartTree(InId) ==
    /\ phase = "active"
    /\ \E out \in GetTree(RunningTrees, objs, ParallelBehaviorDefaults, InId) :
          /\ phase' = IF out.abort THEN "aborted" ELSE phase
          /\ lastOp' = [Call("RestartTree") EXCEPT
                           !.Id = InId, !.tree = out.tree,
                           !.oob = out.oob, !.abort = out.abort,
                           !.restarted = IF out.tree # NULL THEN {out.tree} ELSE {}]
    /\ UNCHANGED <<HasAuthority, ParallelBehaviorDefaults, RunningTrees, objs>>

\* a caller invokes RemoveTree(Id)
CallRemoveTree(Id) ==
    /\ phase = "active"
    /\ LET r == RemoveTree(RunningTrees, objs, Id)
       IN  /\ RunningTrees' = r.trees
           /\ objs' = r.objs
           /\ lastOp' = [Call("RemoveTree") EXCEPT !.Id = Id, !.ok = r.ok,
                                                   !.stopped = r.stopped,
                                                   !.destroyed = r.destroyed]
    /\ UNCHANGED <<phase, HasAuthority, ParallelBehaviorDefaults>>

\* a caller invokes RemoveAllTrees()
CallRemoveAllTrees ==
    /\ phase = "active"
    /\ LET r == RemoveAllTrees(RunningTrees, objs)
       IN  /\ RunningTrees' = r.trees
           /\ objs' = r.objs
           /\ lastOp' = [Call("RemoveAllTrees") EXCEPT !.stopped = r.stopped,
                                                       !.destroyed = r.destroyed]
    /\ UNCHANGED <<phase, HasAuthority, ParallelBehaviorDefaults>>

\* the engine or another collaborator destroys a live managed object
\* without going through the registry
ExternalDestroy(o) ==
    /\ phase = "active"
    /\ IsValid(objs, o)
    /\ Cardinality({x \in DOMAIN objs : objs[x].Killed = "external"}) < MaxExternal
    /\ objs' = [objs EXCEPT ![o].Killed = "external"]
    /\ lastOp' = [Call("ExternalDestroy") EXCEPT !.destroyed = {o}]
    /\ UNCHANGED <<phase, HasAuthority, ParallelBehaviorDefaults, RunningTrees>>

Next ==
    \/ BeginPlay
    \/ EndPlay
    \/ \E InSetup \in CallerSetups : CallAddTree(InSetup)
    \/ \E InId \in Names : CallGetTree(InId)
    \/ \E InId \in Names : StopTree(InId)
    \/ \E InId \in Names : RestartTree(InId)
    \/ \E Id \in Names : CallRemoveTree(Id)
    \/ CallRemoveAllTrees
    \/ \E o \in DOMAIN objs : ExternalDestroy(o)

Spec == Init /\ [][Next]_vars

\* ----------------------------------------------------------------- claims
\* the positions of the records carrying Id in a registry
Matches(trees, Id) == {i \in DOMAIN trees : trees[i].Id = Id}

\* the managed objects a registry refers to
Referenced(trees) ==
    ({trees[i].TreeComponent : i \in DOMAIN trees}
        \cup {trees[i].BlackboardComponent : i \in DOMAIN trees}) \ {NULL}

\* C1: AddTree with a non-null tree asset returns true, and a GetTree of the
\* same id called right after it does not fail and returns a live executor.
C1_AddThenGet ==
    [][/\ (lastOp'.op = "AddTree" /\ lastOp'.BTAsset # NoAsset) => lastOp'.ok
       /\ (/\ lastOp.op = "AddTree" /\ lastOp.BTAsset # NoAsset
           /\ lastOp'.op = "GetTree" /\ lastOp'.Id = lastOp.Id)
          => (~lastOp'.abort /\ IsValid(objs', lastOp'.tree))]_vars

\* C2: after RemoveTree(Id) no record of the registry carries Id, and the
\* executor and the blackboard of every record that carried Id are destroyed.
C2_RemoveTreeRemovesEveryMatch ==
    [][lastOp'.op = "RemoveTree"
       => /\ Matches(RunningTrees', lastOp'.Id) = {}
          /\ \A i \in Matches(RunningTrees, lastOp'.Id) :
                /\ ~IsValid(objs', RunningTrees[i].TreeComponent)
                /\ ~IsValid(objs', RunningTrees[i].BlackboardComponent)]_vars

\* C3: a RemoveTree(Id) that directly follows a RemoveTree of the same Id
\* returns false.
C3_SecondRemoveReturnsFalse ==
    [][(/\ lastOp.op = "RemoveTree" /\ lastOp'.op = "RemoveTree"
        /\ lastOp'.Id = lastOp.Id)
       => ~lastOp'.ok]_vars

\* C4: GetTree of an id that no record carries reads no position at or past
\* the registry's size, does not fail, and returns nullptr.
C4_GetUnknownIdIsAbsent ==
    (lastOp.op = "GetTree" /\ Matches(RunningTrees, lastOp.Id) = {})
    => (~lastOp.oob /\ ~lastOp.abort /\ lastOp.tree = NULL)

\* C5: AddTree with a null tree asset returns false, leaves the registry as it
\* was (same records, same order) and creates no object.
C5_AddNullChangesNothing ==
    [][(lastOp'.op = "AddTree" /\ lastOp'.BTAsset = NoAsset)
       => (~lastOp'.ok /\ RunningTrees' = RunningTrees /\ objs' = objs)]_vars

\* C5 witness: a null asset was refused while the registry held a record
C5_Witness ==
    /\ lastOp.op = "AddTree" /\ lastOp.BTAsset = NoAsset /\ ~lastOp.ok
    /\ Len(RunningTrees) >= 1

\* C6: after RemoveAllTrees the registry is empty and every executor and
\* blackboard a record referred to before the call is destroyed.
C6_RemoveAllClears ==
    [][lastOp'.op = "RemoveAllTrees"
       => /\ Len(RunningTrees') = 0
          /\ \A o \in Referenced(RunningTrees) : ~IsValid(objs', o)]_vars

\* C6 witness: RemoveAllTrees emptied a registry of two records, destroying
\* two executors and at least one blackboard
C6_Witness ==
    /\ lastOp.op = "RemoveAllTrees" /\ Len(RunningTrees) = 0
    /\ Cardinality(lastOp.stopped) >= 2
    /\ Cardinality(lastOp.destroyed) >= 3

\* C7: when EndPlay has completed, with or without authority, the registry is
\* empty and no executor or blackboard that was created is still alive.
C7_EndPlayLeavesNothing ==
    phase = "ended"
    => /\ Len(RunningTrees) = 0
       /\ \A o \in DOMAIN objs : ~IsValid(objs, o)

\* C7 witness: a manager without authority ended play and destroyed the
\* executor and blackboard of a tree that had been added
C7_Witness ==
    /\ phase = "ended" /\ ~HasAuthority
    /\ Cardinality(lastOp.destroyed) >= 2

\* C8: BeginPlay runs the defaults (one AddTree per configured default) if and
\* only if the owner has authority; without authority the registry is empty
\* after BeginPlay.
C8_AuthorityGatesDefaults ==
    lastOp.op = "BeginPlay"
    => /\ lastOp.ranDefaults <=> HasAuthority
       /\ lastOp.addCalls = IF HasAuthority THEN Len(ParallelBehaviorDefaults) ELSE 0
       /\ ~HasAuthority => RunningTrees = <<>>

\* C8 witness: BeginPlay without authority, with a default that could have
\* been added
C8_Witness ==
    /\ lastOp.op = "BeginPlay" /\ ~HasAuthority
    /\ \E i \in DOMAIN ParallelBehaviorDefaults :
          ParallelBehaviorDefaults[i].BTAsset # NoAsset

\* C9: when the executor of a record was destroyed externally, GetTree,
\* StopTree and RestartTree of that record's id do not fail, invoke no stop or
\* restart on a destroyed executor, leave the registry unchanged, and GetTree
\* returns nullptr.
C9_StaleHandleIsAbsent ==
    [][(/\ lastOp'.op \in {"GetTree", "StopTree", "RestartTree"}
        /\ \E i \in Matches(RunningTrees, lastOp'.Id) :
              /\ RunningTrees[i].TreeComponent # NULL
              /\ objs[RunningTrees[i].TreeComponent].Killed = "external")
       => /\ ~lastOp'.abort
          /\ \A o \in lastOp'.stopped \cup lastOp'.restarted : IsValid(objs, o)
          /\ RunningTrees' = RunningTrees
          /\ lastOp'.op = "GetTree" => lastOp'.tree = NULL]_vars

\* C10: AddTree with the id of a record already in the registry returns false
\* and adds no record.
C10_DuplicateIdRefused ==
    [][(lastOp'.op = "AddTree" /\ Matches(RunningTrees, lastOp'.Id) # {})
       => (~lastOp'.ok /\ RunningTrees' = RunningTrees)]_vars

\* C11: RemoveTree(Id) returns true exactly when a record carried Id before the
\* call; when none did, it changes neither the registry nor any object and
\* invokes nothing.
C11_RemoveTreeResult ==
    [][lastOp'.op = "RemoveTree"
       => /\ lastOp'.ok <=> (Matches(RunningTrees, lastOp'.Id) # {})
          /\ Matches(RunningTrees, lastOp'.Id) = {}
             => /\ RunningTrees' = RunningTrees
                /\ objs' = objs
                /\ lastOp'.stopped = {}
                /\ lastOp'.destroyed = {}]_vars

\* C11 witness: RemoveTree of an id that no record carries returned false and
\* left a record with a live executor in the registry
C11_Witness ==
    /\ lastOp.op = "RemoveTree" /\ ~lastOp.ok
    /\ \E i \in DOMAIN RunningTrees : IsValid(objs, RunningTrees[i].TreeComponent)

\* C12: the record a successful AddTree adds has a blackboard handle exactly
\* when the tree asset has a blackboard asset and InitializeBlackboard
\* succeeded on it; otherwise the handle is absent.
C12_BlackboardIffInitialized ==
    [][(lastOp'.op = "AddTree" /\ lastOp'.ok)
       => /\ Len(RunningTrees') >= 1
          /\ (RunningTrees'[Len(RunningTrees')].BlackboardComponent # NULL)
             <=> (/\ HasBlackboardAsset(lastOp'.BTAsset)
                  /\ InitializeBlackboard(lastOp'.BTAsset))]_vars

\* a configured default has a tree asset
HasAsset(setup) == setup.BTAsset # NoAsset

C13_OrderWitness ==
    /\ lastOp.op = "BeginPlay" /\ HasAuthority
    /\ Len(RunningTrees) = 2
    /\ RunningTrees[1].Id = "locomotion" /\ RunningTrees[2].Id = "combat"

\* the lowest index of a record carrying Id: the earliest inserted one
Earliest(trees, Id) ==
    CHOOSE i \in Matches(trees, Id) : \A j \in Matches(trees, Id) : i <= j

\* C14: when several records carry the same id, GetTree(Id) returns the
\* executor of the earliest inserted of them, and StopTree(Id) and
\* RestartTree(Id) invoke stop and restart on that executor and no other.
C14_DuplicateIdResolvesToEarliest ==
    [][(/\ lastOp'.op \in {"GetTree", "StopTree", "RestartTree"}
        /\ Cardinality(Matches(RunningTrees, lastOp'.Id)) >= 2)
       => LET first == RunningTrees[Earliest(RunningTrees, lastOp'.Id)].TreeComponent
          IN  /\ ~lastOp'.abort
              /\ lastOp'.tree = Get(objs, first)
              /\ lastOp'.op = "StopTree"
                 => lastOp'.stopped = IF IsValid(objs, first) THEN {first} ELSE {}
              /\ lastOp'.op = "RestartTree"
                 => lastOp'.restarted = IF IsValid(objs, first) THEN {first} ELSE {}]_vars

\* C15: StopTree(Id) returns with the registry's records and the liveness of
\* every managed object as they were before the call, whether or not a record
\* carries Id; and a second StopTree(Id) right after the first stops nothing
\* that the first did not stop.
C15_StopTreeKeepsRecordsAndObjects ==
    [][lastOp'.op = "StopTree"
       => /\ ~lastOp'.abort
          /\ RunningTrees' = RunningTrees
          /\ \A o \in DOMAIN objs : IsValid(objs', o) <=> IsValid(objs, o)
          /\ DOMAIN objs' = DOMAIN objs
          /\ (lastOp.op = "StopTree" /\ lastOp.Id = lastOp'.Id)
             => lastOp'.stopped \subseteq lastOp.stopped]_vars

\* C15 without the call's completion: the records and the objects' liveness
\* are as before on every outcome of StopTree
C15_FrameOnEveryOutcome ==
    [][lastOp'.op = "StopTree"
       => /\ RunningTrees' = RunningTrees
          /\ \A o \in DOMAIN objs : IsValid(objs', o) <=> IsValid(objs, o)
          /\ DOMAIN objs' = DOMAIN objs]_vars

\* C15 for calls that stay inside the registry: a repeated StopTree(Id) stops
\* what the first stopped
C15_RepeatInRange ==
    [][(/\ lastOp'.op = "StopTree" /\ ~lastOp'.oob
        /\ lastOp.op = "StopTree" /\ lastOp.Id = lastOp'.Id)
       => lastOp'.stopped = lastOp.stopped]_vars

\* C16: RemoveAllTrees called on an empty registry changes nothing and invokes
\* nothing; a RemoveAllTrees right after a RemoveAllTrees leaves the registry
\* empty and every object as the first call left it.
C16_RemoveAllTreesIdempotent ==
    [][lastOp'.op = "RemoveAllTrees"
       => /\ RunningTrees = <<>>
             => /\ RunningTrees' = <<>>
                /\ objs' = objs
                /\ lastOp'.stopped = {}
                /\ lastOp'.destroyed = {}
          /\ lastOp.op = "RemoveAllTrees"
             => /\ RunningTrees = <<>>
                /\ RunningTrees' = <<>>
                /\ objs' = objs
                /\ lastOp'.destroyed = {}]_vars

\* C16 witness: a RemoveAllTrees that found the registry empty and destroyed
\* nothing, after an earlier removal had destroyed objects
C16_Witness ==
    /\ lastOp.op = "RemoveAllTrees"
    /\ lastOp.stopped = {} /\ lastOp.destroyed = {}
    /\ RunningTrees = <<>>
    /\ \E o \in DOMAIN objs : objs[o].Killed = "DestroyComponent"

Stale(os, rt) ==
    \/ ~IsValid(os, rt.TreeComponent)
    \/ rt.BlackboardComponent # NULL /\ ~IsValid(os, rt.BlackboardComponent)

\* C18: whatever was destroyed from outside before the call, RemoveTree and
\* RemoveAllTrees invoke stop and destroy only on objects that are alive at
\* the call, and every record the call is about (all of them for
\* RemoveAllTrees, those carrying the id for RemoveTree) that has a stale
\* handle is gone from the registry afterwards.
C18_StaleHandleSkippedRecordRemoved ==
    [][lastOp'.op \in {"RemoveTree", "RemoveAllTrees"}
       => /\ \A o \in lastOp'.stopped \cup lastOp'.destroyed : IsValid(objs, o)
          /\ \A i \in DOMAIN RunningTrees :
                (/\ lastOp'.op = "RemoveTree" => RunningTrees[i].Id = lastOp'.Id
                 /\ Stale(objs, RunningTrees[i]))
                => \A j \in DOMAIN RunningTrees' :
                      RunningTrees'[j].TreeComponent # RunningTrees[i].TreeComponent]_vars

\* C18, the calls alone: stop and destroy reach live objects only
C18_OnlyLiveObjectsInvoked ==
    [][lastOp'.op \in {"RemoveTree", "RemoveAllTrees"}
       => \A o \in lastOp'.stopped \cup lastOp'.destroyed : IsValid(objs, o)]_vars

\* C18 for an id that one record carries: the stale record is removed
C18_SingleStaleRecordRemoved ==
    [][(lastOp'.op = "RemoveTree" /\ Cardinality(Matches(RunningTrees, lastOp'.Id)) = 1)
       => \A i \in Matches(RunningTrees, lastOp'.Id) :
             /\ lastOp'.ok
             /\ \A j \in DOMAIN RunningTrees' :
                   RunningTrees'[j].TreeComponent # RunningTrees[i].TreeComponent]_vars

\* a stale record of a single id was removed by RemoveTree
C18_SingleStaleReached ==
    /\ lastOp.op = "RemoveTree" /\ lastOp.ok
    /\ lastOp.stopped = {}
    /\ \E o \in DOMAIN objs :
          /\ objs[o].Killed = "external"
          /\ objs[o].Class = "UBehaviorTreeComponent"
          /\ o \notin Referenced(RunningTrees)

\* the records of trees that do not carry Id, in their order
Others(trees, Id) ==
    LET Differs(rt) == rt.Id # Id
    IN  SelectSeq(trees, Differs)

C20_LiveObjectsAreTracked ==
    \A o \in DOMAIN objs : IsValid(objs, o) => o \in Referenced(RunningTrees)

\* C20 witness: after a RemoveTree, a live executor and a live blackboard are
\* tracked while the removed record's executor is destroyed and untracked
C20_Witness ==
    /\ lastOp.op = "RemoveTree" /\ lastOp.ok
    /\ \E o \in DOMAIN objs :
          /\ IsValid(objs, o) /\ objs[o].Class = "UBehaviorTreeComponent"
          /\ o \in Referenced(RunningTrees)
    /\ \E o \in DOMAIN objs :
          /\ IsValid(objs, o) /\ objs[o].Class = "UBlackboardComponent"
          /\ o \in Referenced(RunningTrees)
    /\ \E o \in DOMAIN objs :
          /\ objs[o].Killed = "DestroyComponent"
          /\ objs[o].Class = "UBehaviorTreeComponent"
          /\ o \notin Referenced(RunningTrees)
====
